---- MODULE Spec2Model ----
(***************************************************************************)
(* Selection-state controller of ChoiceGroup                               *)
(* (packages/components/src/components/form/choice-group/choice-group.tsx) *)
(*                                                                         *)
(* A string is a sequence of one-character strings, so that spreading a    *)
(* string (`...value`) and taking its `.length` are computed and not       *)
(* assumed.  A TChoiceGroupValue (or `undefined`) is a tagged record.      *)
(***************************************************************************)
EXTENDS Integers, Sequences, FiniteSets, TLC

VARIABLES
  inputType,     \* prop inputType: "radio" | "checkbox"
  items,         \* prop items: sequence of [value, disabled]
  value,         \* prop value as of the last render (Undefined when not passed)
  hasOnChange,   \* whether prop onChange was passed at the last render
  defaultValue,  \* prop defaultValue as of the last render
  innerValue,    \* React state cell written by setInnerValue
  rendered,      \* innerValue as read by the last render (closure of the handlers)
  pending,       \* handler calls dispatched since the last render
  last,          \* history: the most recent handler call (or "init" / "props")
  run            \* history: the keys toggled on, one per render, since an empty start

vars == <<inputType, items, value, hasOnChange, defaultValue, innerValue,
          rendered, pending, last, run>>

-----------------------------------------------------------------------------
(* Bounds *)

\* longest array a per-item toggle-on may build
MaxLen == 2

\* handler calls that may be dispatched through one render's closures
MaxBatch == 2

-----------------------------------------------------------------------------
(* Values *)

Undefined == [tag |-> "undefined", s |-> <<>>, l |-> <<>>]
Null      == [tag |-> "null",      s |-> <<>>, l |-> <<>>]
Str(k)    == [tag |-> "string",    s |-> k,    l |-> <<>>]
Arr(xs)   == [tag |-> "array",     s |-> <<>>, l |-> xs]

\* item keys: "a", "b", "ab"
KeyA  == <<"a">>
KeyB  == <<"b">>
KeyAB == <<"a", "b">>
KeyUniverse == <<KeyA, KeyB, KeyAB>>
Keys == {KeyUniverse[i] : i \in DOMAIN KeyUniverse}

\* every item list that holds each key at most once, in the order of KeyUniverse,
\* each item enabled or disabled (the empty list and all-disabled lists included)
ItemLists ==
  LET Pick(f) == SelectSeq(<<1, 2, 3>>, LAMBDA i : f[i] # "absent")
      Build(f) == [j \in DOMAIN Pick(f) |->
                     [value |-> KeyUniverse[Pick(f)[j]],
                      disabled |-> f[Pick(f)[j]] = "disabled"]]
  IN  {Build(f) : f \in [1..3 -> {"absent", "enabled", "disabled"}]}

\* values a caller passes as defaultValue (TChoiceGroupValue | undefined)
DefaultValues ==
  {Undefined, Str(<<>>), Str(KeyA), Arr(<<>>)}

\* values a caller passes as value, besides the ones onChange handed to it
ExternalValues ==
  {Undefined, Null, Arr(<<KeyB>>)}

-----------------------------------------------------------------------------
(* Pure parts of the component *)

\* JavaScript truthiness of a TChoiceGroupValue | undefined
Truthy(v) ==
  CASE v.tag = "undefined" -> FALSE
    [] v.tag = "null"      -> FALSE
    [] v.tag = "string"    -> Len(v.s) > 0
    [] v.tag = "array"     -> TRUE

\* `v?.length`; -1 stands for undefined, which is === to no number
Length(v) ==
  CASE v.tag = "array"  -> Len(v.l)
    [] v.tag = "string" -> Len(v.s)
    [] OTHER            -> -1

\* `...value` of a string: its characters, each a one-character string
Spread(k) == [i \in 1..Len(k) |-> <<k[i]>>]

\* lazy initializer of useState
InitInnerValue(dv, type) ==
  IF Truthy(dv) THEN dv
  ELSE IF type = "checkbox" THEN Arr(<<>>)
  ELSE Null

\* variant: tests the value for truthiness, `!!onChange && !!value`
isValueControlled_Truthy(cb, v) == cb /\ Truthy(v)

\* variant: forgets the callback, `typeof value !== 'undefined'`
isValueControlled_ValueOnly(cb, v) == v.tag # "undefined"

isValueControlled(cb, v) == cb /\ v.tag # "undefined"

\* variant: reads the value prop whenever it is passed, callback or not
CurrentValue_IgnoresOnChange(cb, v, inner) ==
  IF v.tag # "undefined" THEN v ELSE inner

\* variant: the branches of the conditional swapped
CurrentValue_Swapped(cb, v, inner) ==
  IF isValueControlled(cb, v) THEN inner ELSE v

CurrentValue(cb, v, inner) == IF isValueControlled(cb, v) THEN v ELSE inner

\* items?.filter((item) => !item.disabled)
EnabledItems(its) == SelectSeq(its, LAMBDA item : ~item.disabled)

isNoneSelected(cur) == Length(cur) = 0

\* variant: counts the disabled items too, `=== items?.length`
isAllSelected_CountsDisabled(cur, its) == Length(cur) = Len(its)

isAllSelected(cur, its) == Length(cur) = Len(EnabledItems(its))

isSomeSelected(cur, its) == ~isNoneSelected(cur) /\ ~isAllSelected(cur, its)

\* variant: the tests in the other order, `isNoneSelected ? 'none' : ...`
IndeterminateState_NoneFirst(cur, its) ==
  IF isNoneSelected(cur) THEN "none"
  ELSE IF isAllSelected(cur, its) THEN "all"
  ELSE "some"

\* the state tag handed to indeterminateCheckLabel
IndeterminateState(cur, its) ==
  IF isAllSelected(cur, its) THEN "all"
  ELSE IF isNoneSelected(cur) THEN "none"
  ELSE "some"

\* variant: the inputType test dropped, `if (Array.isArray(nextValue))`
ItemNextValue_AnyArray(type, cur, key, checked) ==
  IF cur.tag = "array"
  THEN IF checked
       THEN Arr(cur.l \o Spread(key))
       ELSE Arr(SelectSeq(cur.l, LAMBDA item : item # key))
  ELSE Str(key)

\* variant: a radio can be unchecked, `nextValue = checked ? value : null`
ItemNextValue_RadioUnchecks(type, cur, key, checked) ==
  IF type = "checkbox" /\ cur.tag = "array"
  THEN IF checked
       THEN Arr(cur.l \o Spread(key))
       ELSE Arr(SelectSeq(cur.l, LAMBDA item : item # key))
  ELSE IF checked THEN Str(key) ELSE Null

\* nextValue of onChangeHandler(key, checked)
ItemNextValue(type, cur, key, checked) ==
  IF type = "checkbox" /\ cur.tag = "array"
  THEN IF checked
       THEN Arr(cur.l \o Spread(key))
       ELSE Arr(SelectSeq(cur.l, LAMBDA item : item # key))
  ELSE Str(key)

\* variant: the filter on disabled dropped, `items?.map((item) => item.value)`
IndeterminateNextValue_KeepsDisabled(cur, its) ==
  IF ~isAllSelected(cur, its)
  THEN Arr([j \in DOMAIN its |-> its[j].value])
  ELSE Arr(<<>>)

\* nextValue of onIndeterminateChangeHandler
IndeterminateNextValue(cur, its) ==
  IF ~isAllSelected(cur, its)
  THEN Arr([j \in DOMAIN EnabledItems(its) |-> EnabledItems(its)[j].value])
  ELSE Arr(<<>>)

-----------------------------------------------------------------------------
(* What the last render computed *)

currentValue == CurrentValue(hasOnChange, value, rendered)

ContextValue == [inputType |-> inputType, currentValue |-> currentValue]

\* the aggregate control is rendered (an indeterminateCheckLabel is passed and
\* type is "default")
showIndeterminate == inputType = "checkbox"

\* the keys items pass to the context's onChange: a disabled input dispatches
\* no change event
ItemKeys == {items[i].value : i \in {j \in DOMAIN items : ~items[j].disabled}}

-----------------------------------------------------------------------------
(* History records *)

NoCall(op) ==
  [op |-> op, key |-> <<>>, checked |-> FALSE,
   before |-> Undefined, next |-> Undefined, calls |-> <<>>]

\* history of a render with new props (value v, onChange present iff cb): a
\* render that takes a controlled group to uncontrolled is a "release" and
\* records the value prop the group showed until then
PropsCall(cb, v) ==
  IF isValueControlled(hasOnChange, value) /\ ~isValueControlled(cb, v)
  THEN [NoCall("release") EXCEPT !.before = value]
  ELSE NoCall("props")

RunOff == [stage |-> "off", keys |-> <<>>]

RunAfterItem(key, checked) ==
  IF /\ run.stage = "build"
     /\ pending = 0
     /\ checked
     /\ \E i \in DOMAIN items : items[i].value = key /\ ~items[i].disabled
     /\ \A j \in DOMAIN run.keys : run.keys[j] # key
  THEN [stage |-> "build", keys |-> Append(run.keys, key)]
  ELSE RunOff

RunAfterIndeterminate ==
  IF /\ run.stage = "build"
     /\ pending = 0
     /\ Len(run.keys) = Len(EnabledItems(items))
  THEN [stage |-> "aggregate", keys |-> run.keys]
  ELSE RunOff

-----------------------------------------------------------------------------
(* State machine *)

Init ==
  /\ inputType \in {"radio", "checkbox"}
  /\ items \in ItemLists
  /\ value \in ExternalValues
  /\ hasOnChange \in BOOLEAN
  /\ defaultValue \in DefaultValues
  /\ innerValue = InitInnerValue(defaultValue, inputType)
  /\ rendered = innerValue
  /\ pending = 0
  /\ last = NoCall("init")
  /\ run = IF /\ inputType = "checkbox"
              /\ ~(hasOnChange /\ value # Undefined)
              /\ innerValue = Arr(<<>>)
              /\ Len(EnabledItems(items)) >= 2
           THEN [stage |-> "build", keys |-> <<>>]
           ELSE RunOff

\* an item calls the context's onChange(key, checked)
onChangeHandler(key, checked) ==
  LET nextValue == ItemNextValue(inputType, currentValue, key, checked) IN
  /\ pending < MaxBatch
  /\ Length(nextValue) <= MaxLen
  /\ innerValue' = IF ~isValueControlled(hasOnChange, value)
                   THEN nextValue ELSE innerValue
  /\ last' = [op |-> "item", key |-> key, checked |-> checked,
              before |-> currentValue, next |-> nextValue,
              calls |-> IF hasOnChange THEN <<nextValue>> ELSE <<>>]
  /\ run' = RunAfterItem(key, checked)
  /\ pending' = pending + 1
  /\ UNCHANGED <<inputType, items, value, hasOnChange, defaultValue, rendered>>

\* the aggregate Check calls onIndeterminateChangeHandler
onIndeterminateChangeHandler ==
  LET nextValue == IndeterminateNextValue(currentValue, items) IN
  /\ showIndeterminate
  /\ pending < MaxBatch
  /\ innerValue' = IF ~isValueControlled(hasOnChange, value)
                   THEN nextValue ELSE innerValue
  /\ last' = [op |-> "indeterminate", key |-> <<>>, checked |-> FALSE,
              before |-> currentValue, next |-> nextValue,
              calls |-> IF hasOnChange THEN <<nextValue>> ELSE <<>>]
  /\ run' = RunAfterIndeterminate
  /\ pending' = pending + 1
  /\ UNCHANGED <<inputType, items, value, hasOnChange, defaultValue, rendered>>

\* React re-renders the component after the dispatched handlers returned
Render ==
  /\ pending > 0
  /\ rendered' = innerValue
  /\ pending' = 0
  /\ UNCHANGED <<inputType, items, value, hasOnChange, defaultValue, innerValue,
                 last, run>>

\* variant: a release from control migrates the value prop into the state
SetValue_Migrates(v) ==
  /\ v # value
  /\ value' = v
  /\ innerValue' = IF isValueControlled(hasOnChange, value)
                      /\ ~isValueControlled(hasOnChange, v)
                   THEN value ELSE innerValue
  /\ rendered' = innerValue'
  /\ pending' = 0
  /\ last' = PropsCall(hasOnChange, v)
  /\ run' = RunOff
  /\ UNCHANGED <<inputType, items, hasOnChange, defaultValue>>

\* the parent re-renders the component with another value
SetValue(v) ==
  /\ v # value
  /\ value' = v
  /\ rendered' = innerValue
  /\ pending' = 0
  /\ last' = PropsCall(hasOnChange, v)
  /\ run' = RunOff
  /\ UNCHANGED <<inputType, items, hasOnChange, defaultValue, innerValue>>

\* the parent re-renders the component with or without an onChange
SetOnChange(cb) ==
  /\ cb # hasOnChange
  /\ hasOnChange' = cb
  /\ rendered' = innerValue
  /\ pending' = 0
  /\ last' = PropsCall(cb, value)
  /\ run' = RunOff
  /\ UNCHANGED <<inputType, items, value, defaultValue, innerValue>>

\* the parent re-renders the component with another defaultValue
SetDefaultValue(dv) ==
  /\ dv # defaultValue
  /\ defaultValue' = dv
  /\ rendered' = innerValue
  /\ pending' = 0
  /\ last' = NoCall("props")
  /\ run' = RunOff
  /\ UNCHANGED <<inputType, items, value, hasOnChange, innerValue>>

Next ==
  \/ \E key \in ItemKeys, checked \in BOOLEAN : onChangeHandler(key, checked)
  \/ onIndeterminateChangeHandler
  \/ Render
  \/ \E v \in ExternalValues \cup {last.calls[i] : i \in DOMAIN last.calls} :
        SetValue(v)
  \/ \E cb \in BOOLEAN : SetOnChange(cb)
  \/ \E dv \in DefaultValues : SetDefaultValue(dv)

Spec == Init /\ [][Next]_vars

-----------------------------------------------------------------------------
(* Vocabulary of the properties, defined without the component's operators *)

Controlled == hasOnChange /\ value # Undefined

HandlerOps == {"item", "indeterminate"}

EligibleIndices == {i \in DOMAIN items : ~items[i].disabled}

EligibleCount == Cardinality(EligibleIndices)

\* the keys of the non-disabled items, in item order
EligibleKeys ==
  [j \in 1..EligibleCount |->
     items[CHOOSE i \in EligibleIndices :
             Cardinality({k \in EligibleIndices : k < i}) = j - 1].value]

Elements(xs) == {xs[i] : i \in DOMAIN xs}

\* a duplicate-free list in which every element is the key of some item
WellFormedSelection(v) ==
  /\ v.tag = "array"
  /\ \A i, j \in DOMAIN v.l : i # j => v.l[i] # v.l[j]
  /\ Elements(v.l) \subseteq {items[i].value : i \in DOMAIN items}

ExactlyOne(a, b, c) ==
  \/ a /\ ~b /\ ~c
  \/ ~a /\ b /\ ~c
  \/ ~a /\ ~b /\ c

\* the number of selected entries of a list or string value
HasSize(v, n) ==
  \/ v.tag = "array" /\ Len(v.l) = n
  \/ v.tag = "string" /\ Len(v.s) = n

-----------------------------------------------------------------------------
(* C1 *)

\* C1 as stated: in a checkbox group whose current value is a list, at every
\* render isAll holds iff the selection size equals the number of non-disabled
\* items, isNone holds iff the size is 0, and exactly one of isNone, isSome,
\* isAll holds -- for every item list, the empty and the all-disabled ones too.
C1_ExactlyOneAlways ==
  (inputType = "checkbox" /\ currentValue.tag = "array") =>
    /\ isAllSelected(currentValue, items) <=> Len(currentValue.l) = EligibleCount
    /\ isNoneSelected(currentValue) <=> Len(currentValue.l) = 0
    /\ ExactlyOne(isNoneSelected(currentValue),
                  isSomeSelected(currentValue, items),
                  isAllSelected(currentValue, items))

\* C1 amended: in a checkbox group whose current value is a list, at every
\* render isAll holds iff the selection size equals the number of non-disabled
\* items and isNone holds iff the size is 0; exactly one of isNone, isSome,
\* isAll holds whenever some item is non-disabled or the selection is not
\* empty, and with no non-disabled item and an empty selection isNone and
\* isAll both hold and isSome does not.
C1_ExactlyOneUnlessNoEligible ==
  (inputType = "checkbox" /\ currentValue.tag = "array") =>
    /\ isAllSelected(currentValue, items) <=> Len(currentValue.l) = EligibleCount
    /\ isNoneSelected(currentValue) <=> Len(currentValue.l) = 0
    /\ IF EligibleCount = 0 /\ Len(currentValue.l) = 0
       THEN /\ isNoneSelected(currentValue)
            /\ isAllSelected(currentValue, items)
            /\ ~isSomeSelected(currentValue, items)
       ELSE ExactlyOne(isNoneSelected(currentValue),
                       isSomeSelected(currentValue, items),
                       isAllSelected(currentValue, items))

\* a render after a toggle shows a partly selected checkbox group that has a
\* disabled item
C1_Witness ==
  /\ inputType = "checkbox"
  /\ currentValue.tag = "array"
  /\ last.op \in HandlerOps
  /\ pending = 0
  /\ EligibleCount < Len(items)
  /\ 0 < Len(currentValue.l) /\ Len(currentValue.l) < EligibleCount
  /\ isSomeSelected(currentValue, items)

-----------------------------------------------------------------------------
(* C2 *)

\* C2 as stated: in a checkbox group (item keys distinct), when the previous
\* handler call toggled on a key k that was not in the list S it read, the
\* re-render shows the toggled-on value, and k is now toggled off, the next
\* value is S again (and is what an uncontrolled group commits).
C2_RoundTrip ==
  [][ ( /\ inputType = "checkbox"
        /\ pending = 0
        /\ last.op = "item" /\ last.checked
        /\ last.before.tag = "array"
        /\ last.key \notin Elements(last.before.l)
        /\ currentValue = last.next
        /\ pending' = 1
        /\ last'.op = "item" /\ ~last'.checked /\ last'.key = last.key )
      => ( /\ last'.next = last.before
           /\ ~Controlled => innerValue' = last.before ) ]_vars

-----------------------------------------------------------------------------
(* C3 *)

\* C3: an aggregate toggle gives the empty list when the size of the value it
\* read equals the number of non-disabled items (state `all`), and otherwise
\* (`none`, `some`) exactly the keys of the non-disabled items in item order,
\* whatever was selected before.
C3_AggregateToggle ==
  last.op = "indeterminate" =>
    last.next = IF HasSize(last.before, EligibleCount)
                THEN Arr(<<>>)
                ELSE Arr(EligibleKeys)

\* an aggregate toggle from a `some` state of a group that has a disabled item
\* and had a key selected that is not the first one of the result
C3_Witness ==
  /\ last.op = "indeterminate"
  /\ last.before.tag = "array"
  /\ 0 < Len(last.before.l) /\ Len(last.before.l) < EligibleCount
  /\ EligibleCount < Len(items)
  /\ last.next.l # <<>>
  /\ last.before.l[1] # last.next.l[1]

-----------------------------------------------------------------------------
(* C4 *)

\* C4: a handler call (per-item or aggregate) of a controlled group leaves
\* innerValue unchanged and calls onChange exactly once, with the next value
\* it computed from the value prop.
C4_ControlledFrame ==
  [][ (Controlled /\ pending' = pending + 1)
      => ( /\ innerValue' = innerValue
           /\ Len(last'.calls) = 1
           /\ last'.calls[1] = last'.next
           /\ last'.before = value
           /\ last'.op = "indeterminate" =>
                last'.next \in {Arr(<<>>), Arr(EligibleKeys)}
           /\ (last'.op = "item" /\ value.tag = "array" /\ inputType = "checkbox") =>
                /\ last'.next.tag = "array"
                /\ IF last'.checked
                   THEN SubSeq(last'.next.l, 1, Len(value.l)) = value.l
                   ELSE Elements(last'.next.l) = Elements(value.l) \ {last'.key}
           /\ (last'.op = "item" /\ ~(value.tag = "array" /\ inputType = "checkbox")) =>
                last'.next = Str(last'.key) ) ]_vars

\* a handler has run in a controlled group whose value prop is null or differs
\* from the internal state, and the internal state is not what it notified
C4_Witness ==
  /\ Controlled
  /\ last.op \in HandlerOps
  /\ pending > 0
  /\ innerValue # value
  /\ last.calls = <<last.next>>
  /\ innerValue # last.next

-----------------------------------------------------------------------------
(* C5 *)

\* C5: in an uncontrolled group, the render that follows a handler call reads
\* as current value the internal state, which is the next value of that call
\* and, when onChange is present, the one value passed to it; the derived
\* state of that render is the one of the committed value.
C5_UncontrolledRead ==
  (~Controlled /\ last.op \in HandlerOps /\ pending = 0) =>
    /\ currentValue = innerValue
    /\ currentValue = last.next
    /\ hasOnChange => last.calls = <<currentValue>>
    /\ ContextValue.currentValue = last.next
    /\ isNoneSelected(currentValue) <=> HasSize(last.next, 0)
    /\ isAllSelected(currentValue, items) <=> HasSize(last.next, EligibleCount)

\* the render after a toggle of an uncontrolled group that has a value prop
\* but no onChange, or an onChange but no value prop, shows a non-empty list
C5_Witness ==
  /\ ~Controlled
  /\ hasOnChange \/ value # Undefined
  /\ last.op \in HandlerOps
  /\ pending = 0
  /\ last.next.tag = "array" /\ last.next.l # <<>>
  /\ last.next # last.before
  /\ currentValue # value

-----------------------------------------------------------------------------
(* C6 *)

\* C6: in a radio group the next value of a per-item selection is exactly the
\* selected key, an uncontrolled group commits it, and the render that follows
\* reads it as the current value: nothing of the previous selection is kept.
C6_RadioReplaces ==
  (inputType = "radio" /\ last.op = "item") =>
    /\ last.next = Str(last.key)
    /\ ~Controlled => innerValue = Str(last.key)
    /\ (~Controlled /\ pending = 0) => currentValue = Str(last.key)

\* a radio group rendered after B was selected while A was the selection
C6_Witness ==
  /\ inputType = "radio"
  /\ ~Controlled
  /\ last.op = "item"
  /\ pending = 0
  /\ last.before.tag = "string"
  /\ last.before.s # <<>>
  /\ last.before.s # last.key
  /\ currentValue = Str(last.key)

-----------------------------------------------------------------------------
(* C7 *)

\* C7 as stated: in an uncontrolled checkbox group started from the empty
\* selection with at least two non-disabled items, while each toggle so far
\* turned on a non-disabled item not toggled before (a render after each), the
\* current value is the list of the toggled keys in toggle order and the state
\* is `all` when every non-disabled item was toggled and `some` before that;
\* after an aggregate toggle issued then, the value is empty and the state
\* `none`.
C7_ToggleEachOnce ==
  /\ (run.stage = "build" /\ pending = 0 /\ run.keys # <<>>) =>
       /\ currentValue = Arr(run.keys)
       /\ IndeterminateState(currentValue, items) =
            IF Len(run.keys) = EligibleCount THEN "all" ELSE "some"
  /\ (run.stage = "aggregate" /\ pending = 0) =>
       /\ currentValue = Arr(<<>>)
       /\ IndeterminateState(currentValue, items) = "none"

-----------------------------------------------------------------------------
(* C8 *)

\* C8: isValueControlled holds exactly when onChange is present and the value
\* prop is not undefined; at every render of a controlled group the current
\* value, and the one the context hands to the items, is the value prop.
C8_ControlledRead ==
  /\ isValueControlled(hasOnChange, value) <=> (hasOnChange /\ value # Undefined)
  /\ (hasOnChange /\ value # Undefined) =>
       /\ currentValue = value
       /\ ContextValue.currentValue = value

\* a controlled render whose value prop is null while the internal state holds
\* a list that a toggle committed earlier
C8_Witness ==
  /\ hasOnChange /\ value = Null
  /\ innerValue.tag = "array" /\ innerValue.l # <<>>
  /\ rendered = innerValue
  /\ currentValue = Null

-----------------------------------------------------------------------------
(* C9 *)

\* C9: with onChange but no value prop, or a value prop but no onChange, the
\* current value is read from the internal state, and every handler call
\* commits its next value to the internal state and passes it to onChange
\* when onChange is present.
C9_HalfSupplied ==
  ((hasOnChange /\ value = Undefined) \/ (~hasOnChange /\ value # Undefined)) =>
    /\ currentValue = rendered
    /\ last.op \in HandlerOps =>
         /\ innerValue = last.next
         /\ last.calls = IF hasOnChange THEN <<last.next>> ELSE <<>>
         /\ pending = 0 => currentValue = last.next

\* a group with a value prop and no onChange rendered after an aggregate toggle
\* replaced its internal state
C9_Witness ==
  /\ ~hasOnChange /\ value # Undefined
  /\ last.op = "indeterminate"
  /\ pending = 0
  /\ last.next # last.before
  /\ innerValue = last.next
  /\ innerValue # value

-----------------------------------------------------------------------------
(* C10 *)

\* C10 as stated: until a handler or a prop change, the internal state is the
\* defaultValue whenever one is given (the empty string and the empty list
\* included), else [] in checkbox mode and null in radio mode; and a step that
\* changes the defaultValue prop leaves the internal state unchanged.
C10_SeededFromDefault ==
  [][ /\ last.op = "init" =>
           innerValue = IF defaultValue # Undefined THEN defaultValue
                        ELSE IF inputType = "checkbox" THEN Arr(<<>>)
                        ELSE Null
      /\ defaultValue' # defaultValue => innerValue' = innerValue ]_vars

-----------------------------------------------------------------------------
(* C11 *)

\* C11 as stated: in checkbox mode, a per-item toggle (key, checked = true)
\* that read a list gives that list with exactly one element, the whole key,
\* appended at the end, whatever the length of the key.
C11_AppendsWholeKey ==
  (inputType = "checkbox" /\ last.op = "item" /\ last.checked
     /\ last.before.tag = "array") =>
    /\ last.next.tag = "array"
    /\ Len(last.next.l) = Len(last.before.l) + 1
    /\ last.next.l = Append(last.before.l, last.key)

-----------------------------------------------------------------------------
(* C12 *)

\* C12 as stated: in both modes, whenever the current value is null or an
\* empty sequence, isNone is true and isSome is false.
C12_NullIsNone ==
  (currentValue = Null \/ HasSize(currentValue, 0)) =>
    /\ isNoneSelected(currentValue)
    /\ ~isSomeSelected(currentValue, items)

-----------------------------------------------------------------------------
(* C13 *)

\* C13 as stated: in a checkbox group whose current value has a size, the
\* state tag handed to the label function is `none` iff the size is 0, `all`
\* iff the size equals the number of non-disabled items and `some` otherwise,
\* and the tag is `some` iff isSome, `all` iff isAll, `none` iff isNone.
C13_TagMatchesFlags ==
  LET tag == IndeterminateState(currentValue, items) IN
  (showIndeterminate /\ currentValue.tag \in {"array", "string"}) =>
    /\ tag = "none" <=> HasSize(currentValue, 0)
    /\ tag = "all" <=> HasSize(currentValue, EligibleCount)
    /\ tag = "some" <=> ~(HasSize(currentValue, 0) \/ HasSize(currentValue, EligibleCount))
    /\ tag = "some" <=> isSomeSelected(currentValue, items)
    /\ tag = "all" <=> isAllSelected(currentValue, items)
    /\ tag = "none" <=> isNoneSelected(currentValue)

\* C13 amended: the tag is `all` iff the size equals the number of
\* non-disabled items, `none` iff the size is 0 and some item is non-disabled,
\* `some` otherwise; it is `some` iff isSome, `all` iff isAll, and `none` iff
\* isNone holds and isAll does not (with no non-disabled item and an empty
\* selection isNone and isAll both hold and the tag is `all`).
C13_TagAllFirst ==
  LET tag == IndeterminateState(currentValue, items) IN
  (showIndeterminate /\ currentValue.tag \in {"array", "string"}) =>
    /\ tag = "all" <=> HasSize(currentValue, EligibleCount)
    /\ tag = "none" <=> (HasSize(currentValue, 0) /\ EligibleCount # 0)
    /\ tag = "some" <=> ~(HasSize(currentValue, 0) \/ HasSize(currentValue, EligibleCount))
    /\ tag = "some" <=> isSomeSelected(currentValue, items)
    /\ tag = "all" <=> isAllSelected(currentValue, items)
    /\ tag = "none" <=> (isNoneSelected(currentValue)
                          /\ ~isAllSelected(currentValue, items))

\* the render after an aggregate toggle emptied a checkbox group that has a
\* non-disabled item: the tag is `none`
C13_Witness ==
  /\ showIndeterminate
  /\ last.op = "indeterminate"
  /\ pending = 0
  /\ currentValue = Arr(<<>>)
  /\ last.before # currentValue
  /\ EligibleCount > 0
  /\ IndeterminateState(currentValue, items) = "none"

-----------------------------------------------------------------------------
(* C14 *)

\* C14 as stated: at every render the current value is a list in checkbox mode
\* and a single key or null in radio mode, and so is every next value a
\* handler computes.
C14_ShapeMatchesMode ==
  LET Shaped(v) == IF inputType = "checkbox"
                   THEN v.tag = "array"
                   ELSE v.tag \in {"string", "null"}
  IN  /\ Shaped(currentValue)
      /\ last.op \in HandlerOps => Shaped(last.next)

-----------------------------------------------------------------------------
(* C15 *)

\* C15: in radio mode a per-item toggle gives the key as next value whether
\* checked is true or false, and no per-item toggle takes a non-null internal
\* state or a non-null current value back to null.
C15_RadioNoUncheck ==
  [][ (inputType = "radio" /\ pending' = pending + 1 /\ last'.op = "item")
      => ( /\ last'.next.tag = "string"
           /\ last'.next.s = last'.key
           /\ innerValue # Null => innerValue' # Null
           /\ currentValue # Null =>
                CurrentValue(hasOnChange', value', innerValue') # Null ) ]_vars

\* an uncontrolled radio group rendered after the selected item was toggled
\* with checked = false
C15_Witness ==
  /\ inputType = "radio"
  /\ ~Controlled
  /\ last.op = "item"
  /\ ~last.checked
  /\ last.before = Str(last.key)
  /\ pending = 0
  /\ currentValue = Str(last.key)

-----------------------------------------------------------------------------
(* C16 *)

\* C16: no step taken while the group is controlled changes the internal
\* state, and the render that takes the group from controlled to uncontrolled
\* reads as current value that unchanged internal state (the last value
\* committed while uncontrolled, or the seed), not the value prop it had.
C16_NoMigration ==
  [][ Controlled =>
        /\ innerValue' = innerValue
        /\ ~Controlled' =>
             /\ rendered' = innerValue
             /\ CurrentValue(hasOnChange', value', rendered') = innerValue ]_vars

\* a group released from control while its value prop was a non-empty list the
\* internal state never held: the render shows the old internal state
C16_Witness ==
  /\ last.op = "release"
  /\ ~Controlled
  /\ last.before.tag = "array" /\ last.before.l # <<>>
  /\ innerValue # last.before
  /\ currentValue = innerValue

-----------------------------------------------------------------------------
(* C17 *)

\* C17 as stated: in an uncontrolled checkbox group, when a toggle-on of a
\* one-character key was dispatched and, before a re-render, a toggle-on of
\* another one-character key is dispatched through the handler of the same
\* render, the committed internal state holds both keys.
C17_NoLostUpdate ==
  [][ ( /\ inputType = "checkbox"
        /\ ~Controlled
        /\ pending = 1
        /\ last.op = "item" /\ last.checked /\ Len(last.key) = 1
        /\ last.before.tag = "array"
        /\ pending' = 2
        /\ last'.op = "item" /\ last'.checked /\ Len(last'.key) = 1
        /\ last'.key # last.key )
      => ( /\ innerValue'.tag = "array"
           /\ {last.key, last'.key} \subseteq Elements(innerValue'.l) ) ]_vars

-----------------------------------------------------------------------------
(* C18 *)

\* C18 as stated: in a checkbox group whose current value is a list, whenever
\* isAll holds at a render, the key of every non-disabled item is an element
\* of the current value.
C18_AllContainsEligible ==
  (inputType = "checkbox" /\ currentValue.tag = "array"
     /\ isAllSelected(currentValue, items)) =>
    \A i \in EligibleIndices : items[i].value \in Elements(currentValue.l)

-----------------------------------------------------------------------------
(* C19 *)

\* C19 as stated, as its inductive step: in an uncontrolled checkbox group
\* (item keys distinct) whose rendered selection is a duplicate-free list of
\* item keys -- as any initial selection of the claim is -- a toggle-on of a
\* key not selected, a toggle-off of a selected key or an aggregate toggle
\* commits a duplicate-free list of item keys.
C19_StaysWellFormed ==
  [][ ( /\ inputType = "checkbox"
        /\ ~Controlled
        /\ pending = 0
        /\ WellFormedSelection(currentValue)
        /\ pending' = 1
        /\ last'.op = "item" =>
             (last'.checked <=> last'.key \notin Elements(currentValue.l)) )
      => WellFormedSelection(innerValue') ]_vars

====
